---- MODULE Spec2Model ----
(***************************************************************************)
(* State-machine model of parse() in adsorption_file_parser/trp_excel.py   *)
(* (3P xlsx reports): one invocation of parse on one document.             *)
(*                                                                         *)
(* Text is modelled as a sequence of one-character strings, so that        *)
(* lower(), replace(), startswith(), "in", strip() and the bracket regex   *)
(* are computed character by character.  A cell value is a record          *)
(* [t |-> python type, s |-> text of the value].                           *)
(***************************************************************************)
EXTENDS Integers, Sequences, FiniteSets, TLC

\* ------------------------------------------------------------------ bounds
MaxInfoRows == 2
MaxHeaderCells == 2
MaxDataRows == 3
MaxRowWidth == 2

\* ------------------------------------------------------- string literals
K_material == <<"m", "a", "t", "e", "r", "i", "a", "l">>
K_adsorbate == <<"a", "d", "s", "o", "r", "b", "a", "t", "e">>
K_date == <<"d", "a", "t", "e">>
K_material_mass == <<"m", "a", "t", "e", "r", "i", "a", "l", "_", "m", "a", "s", "s">>
T_charge_name == <<"c", "h", "a", "r", "g", "e", " ", "n", "a", "m", "e">>
T_adsorbate == <<"a", "d", "s", "o", "r", "b", "a", "t", "e">>
T_started_time == <<"s", "t", "a", "r", "t", "e", "d", " ", "t", "i", "m", "e">>
T_sample_weight == <<"s", "a", "m", "p", "l", "e", " ", "w", "e", "i", "g", "h", "t">>
K_measurement == <<"m", "e", "a", "s", "u", "r", "e", "m", "e", "n", "t">>
K_pressure == <<"p", "r", "e", "s", "s", "u", "r", "e">>
K_pressure_saturation == <<"p", "r", "e", "s", "s", "u", "r", "e", "_", "s", "a", "t", "u", "r", "a", "t", "i", "o", "n">>
K_pressure_relative == <<"p", "r", "e", "s", "s", "u", "r", "e", "_", "r", "e", "l", "a", "t", "i", "v", "e">>
K_time_point == <<"t", "i", "m", "e", "_", "p", "o", "i", "n", "t">>
K_loading == <<"l", "o", "a", "d", "i", "n", "g">>
T_id == <<"i", "d">>
T_p == <<"p", " ", "(">>
T_p0 == <<"p", "0", " ", "(">>
T_pp0 == <<"p", "/", "p", "0">>
T_time == <<"t", "i", "m", "e">>
T_v == <<"v", " ", "(">>
K_branch == <<"b", "r", "a", "n", "c", "h">>
K_errors == <<"e", "r", "r", "o", "r", "s">>
K_apparatus == <<"a", "p", "p", "a", "r", "a", "t", "u", "s">>
K_temperature == <<"t", "e", "m", "p", "e", "r", "a", "t", "u", "r", "e">>
K_temperature_unit == <<"t", "e", "m", "p", "e", "r", "a", "t", "u", "r", "e", "_", "u", "n", "i", "t">>
K_pressure_unit == <<"p", "r", "e", "s", "s", "u", "r", "e", "_", "u", "n", "i", "t">>
K_loading_unit == <<"l", "o", "a", "d", "i", "n", "g", "_", "u", "n", "i", "t">>
L_ChargeName == <<"C", "h", "a", "r", "g", "e", " ", "N", "a", "m", "e">>
L_Adsorbate == <<"A", "d", "s", "o", "r", "b", "a", "t", "e">>
L_StartedTime == <<"S", "t", "a", "r", "t", "e", "d", " ", "T", "i", "m", "e">>
L_SampleWeight == <<"S", "a", "m", "p", "l", "e", " ", "W", "e", "i", "g", "h", "t">>
L_Errors == <<"E", "r", "r", "o", "r", "s">>
L_Apparatus == <<"A", "p", "p", "a", "r", "a", "t", "u", "s">>
H_P_mmHg == <<"P", " ", "(", "m", "m", "H", "g", ")">>
H_p_open == <<"p", " ", "(">>
H_V_cm3 == <<"V", " ", "(", " ", "c", "m", "3", " ", ")">>
H_loading == <<"l", "o", "a", "d", "i", "n", "g">>
H_ID == <<"I", "D">>
H_Foo == <<"F", "o", "o">>
H_p0 == <<"p", "0", " ", "(", "m", "m", "H", "g", ")">>
H_p_bar == <<"p", " ", "(", "b", "a", "r", ")">>
Upper == <<"A", "B", "C", "D", "E", "F", "G", "H", "I", "J", "K", "L", "M", "N", "O", "P", "Q", "R", "S", "T", "U", "V", "W", "X", "Y", "Z">>
LowerAlpha == <<"a", "b", "c", "d", "e", "f", "g", "h", "i", "j", "k", "l", "m", "n", "o", "p", "q", "r", "s", "t", "u", "v", "w", "x", "y", "z">>

Dashes3 == <<"-", "-", "-">>
Dashes3Space == <<"-", "-", "-", " ">>
Dashes4 == <<"-", "-", "-", "-">>
S_N2_padded == <<" ", "N", "2", " ">>
S_iso_day == <<"2", "0", "2", "1", "-", "0", "3", "-", "0", "4">>
S_3P == <<"3", "P">>
S_77_3 == <<"7", "7", ".", "3">>
S_K == <<"K">>
Digits == {"0", "1", "2", "3", "4", "5", "6", "7", "8", "9"}

\* ------------------------------------------------------------ cell values
None == [t |-> "none", s |-> <<>>]
Str(s) == [t |-> "str", s |-> s]
Num(s) == [t |-> "num", s |-> s]
False == [t |-> "bool", s |-> <<"F">>]
DateTime == [t |-> "datetime", s |-> S_iso_day]

\* Python truthiness of a cell value ("if val", "not first_cell.value").
Truthy(v) ==
    CASE v.t = "none" -> FALSE
      [] v.t = "str" -> v.s # <<>>
      [] v.t = "num" -> v.s # <<"0">>
      [] v.t = "bool" -> v.s # <<"F">>
      [] OTHER -> TRUE

\* ------------------------------------------------------- text primitives
LowerChar(c) ==
    IF \E i \in 1..Len(Upper) : Upper[i] = c
    THEN LowerAlpha[CHOOSE i \in 1..Len(Upper) : Upper[i] = c]
    ELSE c

\* str.lower()
Lower(text) == [i \in 1..Len(text) |-> LowerChar(text[i])]

\* str.replace(a, b) for one-character a and b
Replace(text, a, b) == [i \in 1..Len(text) |-> IF text[i] = a THEN b ELSE text[i]]

\* "sub in text"
Contains(sub, text) ==
    \E i \in 0..(Len(text) - Len(sub)) : SubSeq(text, i + 1, i + Len(sub)) = sub

\* text.startswith(pre)
StartsWith(text, pre) ==
    Len(pre) <= Len(text) /\ SubSeq(text, 1, Len(pre)) = pre

\* str.strip()
Strip(text) ==
    LET keep == {i \in 1..Len(text) : text[i] # " "}
    IN  IF keep = {} THEN <<>>
        ELSE LET lo == CHOOSE i \in keep : \A j \in keep : i <= j
                 hi == CHOOSE i \in keep : \A j \in keep : j <= i
             IN  SubSeq(text, lo, hi)

\* '\n'.join(iterable of one-character strings)
RECURSIVE JoinLines(_)
JoinLines(chars) ==
    IF Len(chars) <= 1 THEN chars
    ELSE <<chars[1], "\n">> \o JoinLines(Tail(chars))

\* ------------------------------------------------------------ dictionaries
EmptyDict == [k \in {} |-> None]
Put(d, k, v) == [x \in (DOMAIN d) \cup {k} |-> IF x = k THEN v ELSE d[x]]
\* dict.update(other)
Update(d, other) ==
    [x \in (DOMAIN d) \cup (DOMAIN other) |-> IF x \in DOMAIN other THEN other[x] ELSE d[x]]

\* The vocabularies, in dictionary (insertion) order.
_META_DICT ==
    << [key |-> K_material, text |-> <<T_charge_name>>, type |-> "string"],
       [key |-> K_adsorbate, text |-> <<T_adsorbate>>, type |-> "string"],
       [key |-> K_date, text |-> <<T_started_time>>, type |-> "date"],
       [key |-> K_material_mass, text |-> <<T_sample_weight>>, type |-> "numeric"] >>

_DATA_DICT ==
    << [key |-> K_measurement, text |-> <<T_id>>],
       [key |-> K_pressure, text |-> <<T_p>>],
       [key |-> K_pressure_saturation, text |-> <<T_p0>>],
       [key |-> K_pressure_relative, text |-> <<T_pp0>>],
       [key |-> K_time_point, text |-> <<T_time>>],
       [key |-> K_loading, text |-> <<T_v>>] >>

Keys(def_dict) == {def_dict[i].key : i \in 1..Len(def_dict)}
Entry(def_dict, k) == def_dict[CHOOSE i \in 1..Len(def_dict) : def_dict[i].key = k]
\* del def_dict[key]
Del(def_dict, k) == SelectSeq(def_dict, LAMBDA e : e.key # k)

\* ------------------------------------------------ utils (common_utils.py)
\* The result of a search that raises StopIteration.
NotFound == <<>>

\* util.search_key_in_def_dict: the first key, in dictionary order, one of
\* whose candidate texts is contained in the text.
search_key_in_def_dict(text, def_dict) ==
    LET hits == {i \in 1..Len(def_dict) :
                    \E j \in 1..Len(def_dict[i].text) : Contains(def_dict[i].text[j], text)}
    IN  IF hits = {} THEN NotFound
        ELSE def_dict[CHOOSE i \in hits : \A j \in hits : i <= j].key

\* util.search_key_starts_def_dict: the first key one of whose candidate
\* texts is a prefix of the text.
search_key_starts_def_dict(text, def_dict) ==
    LET hits == {i \in 1..Len(def_dict) :
                    \E j \in 1..Len(def_dict[i].text) : StartsWith(text, def_dict[i].text[j])}
    IN  IF hits = {} THEN NotFound
        ELSE def_dict[CHOOSE i \in hits : \A j \in hits : i <= j].key

\* util.handle_string_date: a text of the form dddd-dd-dd is recognised and
\* returned in ISO form; anything else is rejected by the date parser.
IsDayText(s) ==
    /\ Len(s) = 10
    /\ \A i \in 1..10 : IF i \in {5, 8} THEN s[i] = "-" ELSE s[i] \in Digits
handle_string_date(val) ==
    IF val.t = "str" /\ IsDayText(val.s)
    THEN [ok |-> TRUE, v |-> Str(val.s \o <<"T", "0", "0", ":", "0", "0", ":", "0", "0">>)]
    ELSE [ok |-> FALSE, v |-> None]

\* util.handle_excel_string: normalises (trims) a text; fails on a value
\* that is not text.
handle_excel_string(val) ==
    IF val.t = "str"
    THEN [ok |-> TRUE, v |-> Str(Strip(val.s))]
    ELSE [ok |-> FALSE, v |-> None]

\* util.RE_BETWEEN_BRACKETS.search(h): the shortest non-empty text after the
\* leftmost "(" that is followed by a ")"; <<0, 0>> stands for no match.
NoMatch == <<0, 0>>
RE_BETWEEN_BRACKETS_search(h) ==
    LET starts == {i \in 2..Len(h) :
                      h[i - 1] = "(" /\ \E e \in (i + 1)..Len(h) : h[e] = ")"}
    IN  IF starts = {} THEN NoMatch
        ELSE LET st == CHOOSE i \in starts : \A j \in starts : i <= j
                 ends == {e \in (st + 1)..Len(h) : h[e] = ")"}
                 en == CHOOSE e \in ends : \A f \in ends : e <= f
             IN  <<st, en - 1>>
\* match.group()
Group(h, m) == SubSeq(h, m[1], m[2])

\* unit_parsing.parse_pressure_string / parse_loading_string: the unit
\* fields for a unit text.
parse_pressure_string(unit_string) ==
    Put(EmptyDict, K_pressure_unit, [t |-> "pressure_unit", s |-> unit_string])
parse_loading_string(unit_string) ==
    Put(EmptyDict, K_loading_unit, [t |-> "loading_unit", s |-> unit_string])

\* ------------------------------------------------------------------ state
VARIABLES
    pc,          \* position in parse: start, open_info, info, header, data, check, return, done, failed
    err,         \* the exception that ended parse ("" while none)
    handle,      \* the workbook's file handle: none, open, closed
    sheets,      \* the sheet names of the loaded workbook
    profile,     \* which part of the loaded document is varied
    meta,        \* parse: meta
    meta_dict,   \* parse: meta_dict, the working copy of _META_DICT
    row,         \* parse: the Info row of the current iteration, <<first cell, second cell>>
    key,         \* parse: key
    path,        \* the branch of the loop body the current iteration took
    nInfo,       \* Info rows iterated so far
    header_list, \* _parse_header: header_list
    head,        \* parse: head
    rows,        \* _parse_data: list(data_rows), as far as iterated
    assembled,   \* _parse_data: data
    branch,      \* _parse_data: branch
    data,        \* parse: data
    log          \* what logger.info / logger.warning have been given

vars == <<pc, err, handle, sheets, profile, meta, meta_dict, row, key, path, nInfo,
          header_list, head, rows, assembled, branch, data, log>>

\* -------------------------------------------------------------- documents
\* The documents explored vary one part each: the Info rows, the Isotherm
\* header row or the Isotherm data rows; the other parts are the plain ones.
\* Rows are read one at a time: XRows(p, n) are the rows a document of profile
\* p may hold after n rows, XEnds(p, n) says whether it may end there.
Profiles == {"info", "header", "data"}

InfoLabels ==
    {Str(L_ChargeName), Str(L_Adsorbate), Str(L_StartedTime), Str(L_SampleWeight),
     Str(L_Errors), Str(L_Apparatus)}
InfoValues ==
    {None, Str(<<>>), Num(<<"0">>), False, Num(<<"3">>), Str(S_N2_padded),
     Str(S_iso_day), DateTime}
PlainInfo == << <<Str(L_ChargeName), Str(S_N2_padded)>>, <<Str(L_SampleWeight), Num(<<"3">>)>> >>
InfoRows(p, n) ==
    IF p = "info"
    THEN IF n < MaxInfoRows
         THEN {<<l, v>> : l \in InfoLabels, v \in InfoValues}
              \cup {<<None, None>>, <<Num(<<"5">>), None>>}
         ELSE {}
    ELSE IF n < Len(PlainInfo) THEN {PlainInfo[n + 1]} ELSE {}
InfoEnds(p, n) == p = "info" \/ n = Len(PlainInfo)

HeaderCells ==
    {Str(H_P_mmHg), Str(H_p_bar), Str(H_p_open), Str(H_V_cm3), Str(H_loading),
     Str(H_p0), Str(H_ID), Str(H_Foo), None}
PlainHeader == <<Str(H_P_mmHg), Str(H_V_cm3)>>
HeaderRows(p) ==
    IF p = "header"
    THEN UNION {[1..n -> HeaderCells] : n \in 0..MaxHeaderCells}
    ELSE {PlainHeader}

FirstCells == {Str(Dashes3), Str(Dashes3Space), Str(Dashes4), Num(<<"1">>)}
MakeRow(first, width) == [j \in 1..width |-> IF j = 1 THEN first ELSE Num(<<"7">>)]
PlainData == <<MakeRow(Num(<<"1">>), 2)>>
DataRows(p, n) ==
    IF p = "data"
    THEN IF n < MaxDataRows
         THEN {MakeRow(f, w) : f \in FirstCells, w \in 0..MaxRowWidth}
         ELSE {}
    ELSE IF n < Len(PlainData) THEN {PlainData[n + 1]} ELSE {}
DataEnds(p, n) == p = "data" \/ n = Len(PlainData)

\* ------------------------------------------------------------------- Init
Init ==
    /\ pc = "start"
    /\ err = ""
    /\ handle = "none"
    /\ sheets = {}
    /\ profile = "info"
    /\ meta = EmptyDict
    /\ meta_dict = _META_DICT
    /\ row = <<None, None>>
    /\ key = NotFound
    /\ path = "none"
    /\ nInfo = 0
    /\ header_list = <<>>
    /\ head = <<>>
    /\ rows = <<>>
    /\ assembled = <<>>
    /\ branch = 0
    /\ data = EmptyDict
    /\ log = {}

Raise(e) == pc' = "failed" /\ err' = e

\* ---------------------------------------------------------- open workbook
\* openpyxl.load_workbook(path, read_only=True, data_only=True): the file is
\* opened and, in read-only mode, stays open until workbook.close().
LoadWorkbook ==
    /\ pc = "start"
    /\ \E p \in Profiles, sh \in SUBSET {"Info", "Isotherm"} :
          /\ profile' = p
          /\ sheets' = sh
    /\ handle' = "open"
    /\ pc' = "open_info"
    /\ UNCHANGED <<err, meta, meta_dict, row, key, path, nInfo, header_list, head,
                   rows, assembled, branch, data, log>>

\* load_workbook raises (no such file, not a workbook): nothing is opened.
LoadFails ==
    /\ pc = "start"
    /\ Raise("InvalidFileException")
    /\ UNCHANGED <<handle, sheets, profile, meta, meta_dict, row, key, path, nInfo,
                   header_list, head, rows, assembled, branch, data, log>>

\* info_sheet = workbook['Info']
OpenInfo ==
    /\ pc = "open_info"
    /\ IF "Info" \in sheets
       THEN pc' = "info" /\ UNCHANGED err
       ELSE Raise("KeyError: Worksheet Info does not exist.")
    /\ UNCHANGED <<handle, sheets, profile, meta, meta_dict, row, key, path, nInfo,
                   header_list, head, rows, assembled, branch, data, log>>

\* --------------------------------------------------------------- metadata
\* key = cell_value.replace(' ', '_')
FallbackKey(cell_value) == Replace(cell_value, " ", "_")

\* except StopIteration: if val: meta[key] = val
FallbackStore(m, cell_value, val) ==
    IF Truthy(val) THEN Put(m, FallbackKey(cell_value), val) ELSE m

\* The value stored for a matched key of type tp, or the collaborator's failure.
Coerce(tp, val) ==
    IF val.t = "none" THEN [ok |-> TRUE, v |-> None]
    ELSE IF tp = "numeric" THEN [ok |-> TRUE, v |-> val]
    ELSE IF tp = "date" THEN handle_string_date(val)
    ELSE handle_excel_string(val)

CoerceError(tp) == IF tp = "date" THEN "DateParseError" ELSE "StringNormalizeError"

\* One iteration of "for row in info_sheet.rows".
InfoRow ==
    /\ pc = "info"
    /\ \E r \in InfoRows(profile, nInfo) :
          LET first == r[1]
              val == r[2]
          IN  /\ row' = r
              /\ \/ /\ ~Truthy(first)
                    /\ path' = "blank"
                    /\ UNCHANGED <<pc, err, meta, meta_dict, key>>
                 \/ /\ Truthy(first)
                    /\ first.t # "str"
                    /\ path' = "raise"
                    /\ Raise("AttributeError: 'int' object has no attribute 'lower'")
                    /\ UNCHANGED <<meta, meta_dict, key>>
                 \/ /\ Truthy(first)
                    /\ first.t = "str"
                    /\ search_key_in_def_dict(Lower(first.s), meta_dict) = NotFound
                    /\ meta' = FallbackStore(meta, Lower(first.s), val)
                    /\ key' = IF Truthy(val) THEN FallbackKey(Lower(first.s)) ELSE key
                    /\ path' = IF Truthy(val) THEN "fallback" ELSE "skipped"
                    /\ UNCHANGED <<pc, err, meta_dict>>
                 \/ /\ Truthy(first)
                    /\ first.t = "str"
                    /\ search_key_in_def_dict(Lower(first.s), meta_dict) # NotFound
                    /\ LET k == search_key_in_def_dict(Lower(first.s), meta_dict)
                           tp == Entry(meta_dict, k).type
                           c == Coerce(tp, val)
                       IN  /\ key' = k
                           /\ meta_dict' = Del(meta_dict, k)
                           /\ IF c.ok
                              THEN /\ meta' = Put(meta, k, c.v)
                                   /\ path' = "matched"
                                   /\ UNCHANGED <<pc, err>>
                              ELSE /\ path' = "raise"
                                   /\ Raise(CoerceError(tp))
                                   /\ UNCHANGED meta
    /\ nInfo' = nInfo + 1
    /\ UNCHANGED <<handle, sheets, profile, header_list, head, rows, assembled,
                   branch, data, log>>

\* The Info rows are exhausted; data_sheet = workbook['Isotherm'].  The
\* loop's locals are dead from here on.
OpenIsotherm ==
    /\ pc = "info"
    /\ InfoEnds(profile, nInfo)
    /\ IF "Isotherm" \in sheets
       THEN pc' = "header" /\ UNCHANGED err
       ELSE Raise("KeyError: Worksheet Isotherm does not exist.")
    /\ row' = <<None, None>>
    /\ key' = NotFound
    /\ path' = "none"
    /\ UNCHANGED <<handle, sheets, profile, meta, meta_dict, nInfo, header_list, head,
                   rows, assembled, branch, data, log>>

\* ----------------------------------------------------------------- header
NoError == ""

\* A faulty variant of the loop body: a pressure or loading header without
\* bracketed text is passed over instead of raising.
HeaderCellSkipMissingUnit(h, acc) ==
    IF h.t # "str"
    THEN [acc EXCEPT !.err = "AttributeError: 'NoneType' object has no attribute 'lower'"]
    ELSE LET k == search_key_starts_def_dict(Lower(h.s), _DATA_DICT)
             header == IF k = NotFound THEN h.s ELSE k
             m == RE_BETWEEN_BRACKETS_search(h.s)
             appended == [acc EXCEPT !.headers = Append(acc.headers, header)]
         IN  IF header = K_loading /\ m # NoMatch
             THEN [appended EXCEPT !.units =
                      Update(acc.units, parse_loading_string(Strip(Group(h.s, m))))]
             ELSE IF header = K_pressure /\ m # NoMatch
             THEN [appended EXCEPT !.units =
                      Update(acc.units, parse_pressure_string(Strip(Group(h.s, m))))]
             ELSE appended

\* One iteration of "for h in header_list" on the state acc of _parse_header.
HeaderCell(h, acc) ==
    IF h.t # "str"
    THEN [acc EXCEPT !.err = "AttributeError: 'NoneType' object has no attribute 'lower'"]
    ELSE LET k == search_key_starts_def_dict(Lower(h.s), _DATA_DICT)
             header == IF k = NotFound THEN h.s ELSE k
             m == RE_BETWEEN_BRACKETS_search(h.s)
             appended == [acc EXCEPT !.headers = Append(acc.headers, header)]
         IN  IF header = K_loading
             THEN IF m = NoMatch
                  THEN [appended EXCEPT !.err = "AttributeError: 'NoneType' object has no attribute 'group'"]
                  ELSE [appended EXCEPT !.units =
                           Update(acc.units, parse_loading_string(Strip(Group(h.s, m))))]
             ELSE IF header = K_pressure
             THEN IF m = NoMatch
                  THEN [appended EXCEPT !.err = "AttributeError: 'NoneType' object has no attribute 'group'"]
                  ELSE [appended EXCEPT !.units =
                           Update(acc.units, parse_pressure_string(Strip(Group(h.s, m))))]
             ELSE appended

RECURSIVE ParseHeaderFrom(_, _, _)
ParseHeaderFrom(hl, i, acc) ==
    IF i > Len(hl) \/ acc.err # NoError THEN acc
    ELSE ParseHeaderFrom(hl, i + 1, HeaderCell(hl[i], acc))

_parse_header(hl) ==
    ParseHeaderFrom(hl, 1, [err |-> NoError, headers |-> <<K_branch>>, units |-> EmptyDict])

\* head, units = _parse_header(list(next(data_val))); meta.update(units)
ParseHeader ==
    /\ pc = "header"
    /\ \E hl \in HeaderRows(profile) :
          LET res == _parse_header(hl)
          IN  /\ header_list' = hl
              /\ IF res.err = NoError
                 THEN /\ head' = res.headers
                      /\ meta' = Update(meta, res.units)
                      /\ pc' = "data"
                      /\ UNCHANGED err
                 ELSE /\ Raise(res.err)
                      /\ UNCHANGED <<head, meta>>
    /\ UNCHANGED <<handle, sheets, profile, meta_dict, row, key, path, nInfo, rows,
                   assembled, branch, data, log>>

\* next(data_val) on an Isotherm sheet without any row
EmptyIsotherm ==
    /\ pc = "header"
    /\ Raise("StopIteration")
    /\ UNCHANGED <<handle, sheets, profile, meta, meta_dict, row, key, path, nInfo,
                   header_list, head, rows, assembled, branch, data, log>>

\* ------------------------------------------------------------------- data
\* A faulty variant of the sentinel test: a prefix match.
IsSentinelPrefix(r) == r[1].t = "str" /\ StartsWith(r[1].s, Dashes3)

\* row[0] == '---'
IsSentinel(r) == r[1] = Str(Dashes3)

\* One iteration of "for row in list(data_rows)" in _parse_data.
ParseDataRow ==
    /\ pc = "data"
    /\ \E r \in DataRows(profile, Len(rows)) :
          /\ rows' = Append(rows, r)
          /\ \/ /\ Len(r) = 0
                /\ Raise("IndexError: tuple index out of range")
                /\ UNCHANGED <<branch, assembled>>
             \/ /\ Len(r) > 0
                /\ IsSentinel(r)
                /\ branch' = 1
                /\ UNCHANGED <<pc, err, assembled>>
             \/ /\ Len(r) > 0
                /\ ~IsSentinel(r)
                /\ assembled' = Append(assembled, <<branch>> \o r)
                /\ UNCHANGED <<pc, err, branch>>
    /\ UNCHANGED <<handle, sheets, profile, meta, meta_dict, row, key, path, nInfo,
                   header_list, head, data, log>>

MinOf(S) == CHOOSE x \in S : \A y \in S : x <= y
MaxOf(S) == CHOOSE x \in S : \A y \in S : y <= x

\* map(lambda *x: list(x), *data): one list per position, up to the
\* shortest row.
Transpose(d) ==
    LET w == MinOf({Len(d[i]) : i \in 1..Len(d)})
    IN  [j \in 1..w |-> [i \in 1..Len(d) |-> d[i][j]]]

\* dict(zip(head, columns)): pairs up to the shorter of the two; a repeated
\* key keeps its last column.
ZipDict(h, cols) ==
    LET n == IF Len(h) <= Len(cols) THEN Len(h) ELSE Len(cols)
    IN  [k \in {h[j] : j \in 1..n} |-> cols[MaxOf({j \in 1..n : h[j] = k})]]

\* _parse_data returns; data = dict(zip(head, map(lambda *x: list(x), *data)))
Pack ==
    /\ pc = "data"
    /\ DataEnds(profile, Len(rows))
    /\ IF assembled = <<>>
       THEN /\ Raise("TypeError: map() must have at least two arguments.")
            /\ UNCHANGED data
       ELSE /\ data' = ZipDict(head, Transpose(assembled))
            /\ pc' = "check"
            /\ UNCHANGED err
    /\ UNCHANGED <<handle, sheets, profile, meta, meta_dict, row, key, path, nInfo,
                   header_list, head, rows, assembled, branch, log>>

\* ------------------------------------------------------------------ check
\* The observations of _check's empty-column scan.
EmptyColumnInfos(d) ==
    IF K_loading \in DOMAIN d
    THEN {[level |-> "info", msg |-> k] : k \in {c \in DOMAIN d : Len(d[c]) = 0}}
    ELSE {}

\* '\n'.join(meta['errors']) needs an iterable of strings: a text is one (its
\* characters), a number, a boolean or a datetime is not.
JoinRaises(m) == K_errors \in DOMAIN m /\ m[K_errors].t # "str"

ErrorWarnings(m) ==
    IF K_errors \in DOMAIN m
    THEN {[level |-> "warning", msg |-> JoinLines(m[K_errors].s)]}
    ELSE {}

\* _check(meta, data, path)
Check ==
    /\ pc = "check"
    /\ IF JoinRaises(meta)
       THEN /\ Raise("TypeError: can only join an iterable")
            /\ log' = log \cup EmptyColumnInfos(data)
       ELSE /\ log' = log \cup EmptyColumnInfos(data) \cup ErrorWarnings(meta)
            /\ pc' = "return"
            /\ UNCHANGED err
    /\ UNCHANGED <<handle, sheets, profile, meta, meta_dict, row, key, path, nInfo,
                   header_list, head, rows, assembled, branch, data>>

\* ----------------------------------------------------------------- return
\* A faulty variant of the fixed fields: a key already present is kept.
ExtraMetaKeepExisting(m) ==
    Update([k \in {K_apparatus, K_temperature, K_temperature_unit} |->
               IF k = K_apparatus THEN Str(S_3P)
               ELSE IF k = K_temperature THEN Num(S_77_3) ELSE Str(S_K)],
           m)

\* meta['apparatus'] = '3P'; meta['temperature'] = 77.3; meta['temperature_unit'] = 'K'
ExtraMeta(m) ==
    Put(Put(Put(m, K_apparatus, Str(S_3P)), K_temperature, Num(S_77_3)),
        K_temperature_unit, Str(S_K))

\* Set extra metadata; return meta, data
Return ==
    /\ pc = "return"
    /\ meta' = ExtraMeta(meta)
    /\ pc' = "done"
    /\ UNCHANGED <<err, handle, sheets, profile, meta_dict, row, key, path, nInfo,
                   header_list, head, rows, assembled, branch, data, log>>

\* ------------------------------------------------------------------- spec
Next ==
    \/ LoadWorkbook
    \/ LoadFails
    \/ OpenInfo
    \/ InfoRow
    \/ OpenIsotherm
    \/ ParseHeader
    \/ EmptyIsotherm
    \/ ParseDataRow
    \/ Pack
    \/ Check
    \/ Return

Spec == Init /\ [][Next]_vars

\* ================================================================= claims

MappingBuilt == pc \in {"check", "return", "done"}

\* ---- C1 ------------------------------------------------------------------
C1_DataRowCount == Cardinality({i \in 1..Len(rows) : rows[i][1] # Str(Dashes3)})

\* C1: for every set of Isotherm data rows, the empty set and sets with
\* sentinel rows included, parse builds a data mapping (it does not fail while
\* building it) and every column of the mapping has as many entries as there
\* are data rows other than sentinel rows.
C1_EveryRowSetYieldsEqualColumns ==
    /\ ~(pc = "failed" /\ err = "TypeError: map() must have at least two arguments.")
    /\ MappingBuilt => \A k \in DOMAIN data : Len(data[k]) = C1_DataRowCount

\* ---- C2 ------------------------------------------------------------------
C2_Sentinel(i) == Len(rows[i]) > 0 /\ rows[i][1] = [t |-> "str", s |-> <<"-", "-", "-">>]
C2_DataIdx ==
    SelectSeq([i \in 1..Len(rows) |-> i], LAMBDA i : Len(rows[i]) > 0 /\ ~C2_Sentinel(i))
C2_BranchAt(i) == IF \E s \in 1..(i - 1) : C2_Sentinel(s) THEN 1 ELSE 0

C2_Assembled ==
    /\ Len(assembled) = Len(C2_DataIdx)
    /\ \A j \in 1..Len(assembled) :
          assembled[j] = <<C2_BranchAt(C2_DataIdx[j])>> \o rows[C2_DataIdx[j]]
    /\ pc # "failed" => branch = C2_BranchAt(Len(rows) + 1)
    /\ MappingBuilt => \A k \in DOMAIN data : Len(data[k]) = Len(C2_DataIdx)

\* C2: the branch value prepended to a data row is 0 for every row before the
\* first row whose first cell is exactly '---' and 1 for every row after it;
\* the branch value never goes from 1 back to 0; a sentinel row contributes no
\* entry to any column; a row whose first cell only resembles the sentinel
\* ('--- ', '----') is emitted as data and leaves the branch value alone.
C2_BranchSegmentation ==
    /\ []C2_Assembled
    /\ [][branch = 1 => branch' = 1]_vars

\* C2 witness: parse returned on rows where a look-alike row precedes a
\* sentinel row and a look-alike row follows it.
C2_Witness ==
    /\ pc = "done"
    /\ \E i, j, k \in 1..Len(rows) :
          /\ i < j /\ j < k
          /\ rows[i][1] = Str(Dashes3Space)
          /\ rows[j][1] = Str(Dashes3)
          /\ rows[k][1] = Str(Dashes4)

\* ---- C3 ------------------------------------------------------------------
C3_FixedFields ==
    /\ {K_apparatus, K_temperature, K_temperature_unit} \subseteq DOMAIN meta
    /\ meta[K_apparatus] = [t |-> "str", s |-> <<"3", "P">>]
    /\ meta[K_temperature] = [t |-> "num", s |-> <<"7", "7", ".", "3">>]
    /\ meta[K_temperature_unit] = [t |-> "str", s |-> <<"K">>]

C4_MismatchedRowsFail ==
    MappingBuilt => \A i \in 1..Len(assembled) : Len(assembled[i]) = Len(head)

\* ---- C5 ------------------------------------------------------------------
\* C5: a failure of the date parser or of the string normaliser on a matched
\* Info value is local to the field: it never ends parse.
C5_CoercionFailureIsLocal ==
    ~(pc = "failed" /\ err \in {"DateParseError", "StringNormalizeError"})

\* ---- C6 ------------------------------------------------------------------
\* C6: no execution of parse ends, by return or by failure, with the document
\* handle still open.
C6_HandleReleasedOnExit ==
    pc \in {"done", "failed"} => handle # "open"

\* ---- C7 ------------------------------------------------------------------
\* C7: once an Info row has matched a canonical key, no later Info row changes
\* the value stored under that key.
C7_AssignedAtMostOnce ==
    [][\A k \in {K_material, K_adsorbate, K_date, K_material_mass} :
          (pc = "info" /\ pc' = "info" /\ k \notin Keys(meta_dict) /\ k \in DOMAIN meta)
              => meta'[k] = meta[k]]_vars

\* ---- C8 ------------------------------------------------------------------
C8_NonNullNonEmpty(v) == v.t # "none" /\ ~(v.t = "str" /\ v.s = <<>>)

\* C8: an Info row whose label matches no vocabulary key stores its value
\* verbatim under the lower-cased label with spaces replaced by underscores
\* when the value is non-null and non-empty (0 and false included), and adds
\* nothing when the value is null or empty.
C8_FallbackStoresEveryNonEmptyValue ==
    [][(pc = "info" /\ pc' = "info" /\ path' \in {"fallback", "skipped"})
          => IF C8_NonNullNonEmpty(row'[2])
             THEN meta' = Put(meta, Replace(Lower(row'[1].s), " ", "_"), row'[2])
             ELSE meta' = meta]_vars

\* ---- C9 ------------------------------------------------------------------
C9_Resolved(h) ==
    LET k == search_key_starts_def_dict(Lower(h.s), _DATA_DICT)
    IN  IF k = NotFound THEN h.s ELSE k
C9_UnitText(h) == Strip(Group(h.s, RE_BETWEEN_BRACKETS_search(h.s)))
C9_Cells(K) ==
    {i \in 1..Len(header_list) : header_list[i].t = "str" /\ C9_Resolved(header_list[i]) = K}
C9_Last(K) == CHOOSE i \in C9_Cells(K) : \A j \in C9_Cells(K) : j <= i
C9_Culprit(i) ==
    /\ header_list[i].t = "str"
    /\ C9_Resolved(header_list[i]) \in {K_pressure, K_loading}
    /\ RE_BETWEEN_BRACKETS_search(header_list[i].s) = NoMatch
C9_PastHeader == pc \in {"data", "check", "return", "done"}

C10_CheckNeverRaises ==
    ~(pc = "failed" /\ err = "TypeError: can only join an iterable")

====
